---- MODULE Spec2Model ----
(***************************************************************************)
(* Model of e2e-tests/wasm/src/lib.rs of jwt-compact: the six entry points *)
(* (create/verify for the HMAC, RSA and Ed25519 families), the helpers     *)
(* do_create_token, do_verify_token and extract_claims, and the parts of   *)
(* the jwt_compact engine they call (compact-token parser, key adapter,    *)
(* signature algorithms, claims validator, token assembler).               *)
(*                                                                         *)
(* A compact token is a sequence of characters; characters are integers:   *)
(* SEP is the separator '.', BadChar a character outside the encoding      *)
(* alphabet, and a character c >= 1 encodes the value c - 1.               *)
(***************************************************************************)
EXTENDS Integers, Sequences, FiniteSets, TLC

\* ------------------------------------------------------------------ bounds
NumKeys == 2
MaxLeeway == 1

\* ------------------------------------------------------- program constants
\* Duration::hours(1), in seconds
Hour == 3600

\* ------------------------------------------------------- character codec
SEP == 0
BadChar == -1

base64_encode(bytes) == [i \in 1..Len(bytes) |-> bytes[i] + 1]

IsEncoded(seg) == \A i \in 1..Len(seg) : seg[i] >= 1

base64_decode(seg) == [i \in 1..Len(seg) |-> seg[i] - 1]

RECURSIVE SumSeq(_)
SumSeq(s) == IF s = <<>> THEN 0 ELSE Head(s) + SumSeq(Tail(s))

\* s.split('.'): the segments between separators, in order
RECURSIVE SplitFrom(_, _, _)
SplitFrom(s, i, cur) ==
    IF i > Len(s) THEN <<cur>>
    ELSE IF s[i] = SEP THEN <<cur>> \o SplitFrom(s, i + 1, <<>>)
    ELSE SplitFrom(s, i + 1, Append(cur, s[i]))

Split(s) == SplitFrom(s, 1, <<>>)

\* ------------------------------------------------------------ algorithms
AlgTable == <<"HS256", "HS384", "HS512", "RS256", "PS256", "EdDSA", "none">>

AlgNames == {AlgTable[i] : i \in 1..Len(AlgTable)}

AlgCode(name) == CHOOSE i \in 1..Len(AlgTable) : AlgTable[i] = name

HmacNames == {"HS256", "HS384", "HS512"}
RsaNames == {"RS256", "PS256"}

Family(name) ==
    IF name \in HmacNames THEN "oct"
    ELSE IF name \in RsaNames THEN "RSA"
    ELSE IF name = "EdDSA" THEN "OKP"
    ELSE "none"

\* Header::default() with the algorithm name filled in, serialized
HeaderBytes(name) == <<AlgCode(name)>>

\* ------------------------------------------------------------- key material
\* Key material as the host passes it: a JS value that deserializes as a JWK
\* (form "jwk"), a PEM string (form "pem"), or anything else (form "junk").
\* kty is the JWK family, or for a PEM the kind of its DER contents.
KeyIds == 1..NumKeys

KeyInputs ==
    [form : {"jwk"}, kty : {"oct"}, id : KeyIds, priv : {TRUE}]
    \cup [form : {"jwk"}, kty : {"OKP"}, id : {1}, priv : BOOLEAN]
    \cup [form : {"jwk"}, kty : {"RSA"}, id : {1}, priv : {FALSE}]
    \cup [form : {"pem"}, kty : {"RSA"}, id : {1}, priv : BOOLEAN]
    \cup [form : {"junk"}, kty : {"-"}, id : {0}, priv : {FALSE}]

NoKey == [id |-> 0, ok |-> FALSE]

\* <T::VerifyingKey>::try_from(&jwk): the JWK family must be the algorithm's
VerifyingKey_try_from(T, jwk) ==
    IF jwk.kty = Family(T) THEN [id |-> jwk.id, ok |-> TRUE] ELSE NoKey

\* <T::SigningKey>::try_from(&jwk): as above, and the secret part is required
SigningKey_try_from(T, jwk) ==
    IF jwk.kty = Family(T) /\ jwk.priv THEN [id |-> jwk.id, ok |-> TRUE] ELSE NoKey

\* pem::parse(..)
pem_parse(key) == key.form = "pem"

\* RSAPublicKey::from_pkcs8 / RSAPrivateKey::from_pkcs8 on the PEM contents
RSAPublicKey_from_pkcs8(key) ==
    IF key.kty = "RSA" /\ ~key.priv THEN [id |-> key.id, ok |-> TRUE] ELSE NoKey

RSAPrivateKey_from_pkcs8(key) ==
    IF key.kty = "RSA" /\ key.priv THEN [id |-> key.id, ok |-> TRUE] ELSE NoKey

\* ------------------------------------------------------------- signatures
\* Algorithm::sign: an ideal signature, a different byte string for every
\* (algorithm, key, signed data), any two of them differing in two bytes or
\* more.  Signed data of the shape header '.' custom exp nbf gets a 3-byte
\* digest <<x, y, x + y>>, any other data a longer one.  The verifying key of
\* key pair k checks the signatures of signing key k.
sign(alg, keyId, data) ==
    LET tag == AlgCode(alg) * (NumKeys + 1) + keyId
    IN  IF Len(data) = 5
        THEN LET x == (tag * 16 + data[1]) * 64 + data[3]
                 y == data[4] * 8192 + data[5]
             IN  <<x, y, x + y>>
        ELSE <<tag>> \o data \o <<tag + SumSeq(data)>>

verify_signature(alg, keyId, data, signature) == signature = sign(alg, keyId, data)

\* ------------------------------------------------------------------ claims
NoCustom == [name |-> 0, sub |-> 0, admin |-> FALSE]

\* SampleClaims as serialized: sub, name (1 or 2) and admin in one value
CustomCode(custom) ==
    (custom.sub * 2 + (custom.name - 1)) * 2 + (IF custom.admin THEN 1 ELSE 0)

CustomFromCode(v) ==
    [name |-> ((v \div 2) % 2) + 1, sub |-> v \div 4, admin |-> (v % 2 = 1)]

\* payload JSON: the custom fields, exp, nbf (0: absent, t + 1: present)
ClaimsBytes(c) == <<CustomCode(c.custom), c.exp, IF c.nbf < 0 THEN 0 ELSE c.nbf + 1>>

ClaimsFromBytes(b) ==
    IF Len(b) = 3
    THEN [ok |-> TRUE,
          claims |-> [custom |-> CustomFromCode(b[1]), exp |-> b[2], nbf |-> b[3] - 1]]
    ELSE [ok |-> FALSE, claims |-> [custom |-> NoCustom, exp |-> -1, nbf |-> -1]]

\* Claims::new(custom).set_duration(options, duration)
Claims_new(custom) == [custom |-> custom, exp |-> -1, nbf |-> -1]

set_duration(c, now, duration) == [c EXCEPT !.exp = now + duration]

\* Claims::validate_expiration(options)
validate_expiration(c, now, lw) == now <= c.exp + lw

\* ------------------------------------------------------------------- parser
NoUntrusted ==
    [ok |-> FALSE, signature |-> <<>>, algorithm |-> "none",
     signed_data |-> <<>>, payload |-> <<>>]

\* UntrustedToken::new(s)
UntrustedToken_new(s) ==
    LET parts == Split(s) IN
    IF Len(parts) # 3 THEN NoUntrusted
    ELSE IF \E i \in 1..3 : parts[i] = <<>> \/ ~IsEncoded(parts[i]) THEN NoUntrusted
    ELSE LET hb == base64_decode(parts[1]) IN
         IF Len(hb) # 1 \/ hb[1] \notin 1..Len(AlgTable) THEN NoUntrusted
         ELSE [ok |-> TRUE,
               signature |-> base64_decode(parts[3]),
               algorithm |-> AlgTable[hb[1]],
               signed_data |-> parts[1] \o <<SEP>> \o parts[2],
               payload |-> base64_decode(parts[2])]

\* AlgorithmExt::token(header, claims, signing_key): the compact string
compact_token(alg, claims, keyId) ==
    LET data == base64_encode(HeaderBytes(alg)) \o <<SEP>>
                \o base64_encode(ClaimsBytes(claims))
    IN  data \o <<SEP>> \o base64_encode(sign(alg, keyId, data))

\* AlgorithmExt::validate_integrity(token, verifying_key): "" when the token
\* is accepted, else the error
validate_integrity(alg, ut, keyId) ==
    IF ut.algorithm # alg THEN "UnsupportedAlgorithm"
    ELSE IF ~verify_signature(alg, keyId, ut.signed_data, ut.signature)
    THEN "SignatureMismatch"
    ELSE IF ~ClaimsFromBytes(ut.payload).ok THEN "SerializationError"
    ELSE ""

\* Rsa::with_name(name)
Rsa_with_name(name) == name \in RsaNames

\* ----------------------------------------------------------- host values
\* The claims value the host passes: deserializes as SampleClaims when it has
\* sub and name; admin is optional (serde default: false).
ClaimInputs ==
    {[name |-> 1, sub |-> 1, admin |-> "true", valid |-> TRUE],
     [name |-> 2, sub |-> 2, admin |-> "absent", valid |-> TRUE],
     [name |-> 0, sub |-> 0, admin |-> "absent", valid |-> FALSE]}

\* claims.into_serde::<SampleClaims>()
SampleClaims_from(js) == [name |-> js.name, sub |-> js.sub, admin |-> (js.admin = "true")]

\* secret_key.into_serde::<JsonWebKey>()
JsonWebKey_from(key) == key.form = "jwk"

\* Record fields are written everywhere in one order, that of their first
\* use in this module.
\* ---------------------------------------------------------------- results
\* What a call returns, with the stages it ran (log) and, for a verification,
\* the algorithm handed to validate_integrity and the expiration of the token.
Failed(err, alg, log) ==
    [ok |-> FALSE, alg |-> alg, exp |-> -1, claims |-> NoCustom, err |-> err,
     log |-> log, token |-> <<>>]

Verified(custom, exp, alg, log) ==
    [ok |-> TRUE, alg |-> alg, exp |-> exp, claims |-> custom, err |-> "",
     log |-> log, token |-> <<>>]

Created(token, exp, alg, log) ==
    [ok |-> TRUE, alg |-> alg, exp |-> exp, claims |-> NoCustom, err |-> "",
     log |-> log, token |-> token]

After(log, r) == [r EXCEPT !.log = log \o r.log]

NoResult == Failed("", "-", <<>>)

\* ------------------------------------------------------------ the wrapper
\* extract_claims: validate_expiration under TimeOptions::default() (the
\* clock reading now, the default leeway lw), then the custom claims
\* extract_claims without the call of validate_expiration
extract_claims_NoExpiry(c, now, lw) == [ok |-> TRUE, custom |-> c.custom]

\* extract_claims under a policy without leeway
extract_claims_ZeroLeeway(c, now, lw) ==
    IF validate_expiration(c, now, 0)
    THEN [ok |-> TRUE, custom |-> c.custom]
    ELSE [ok |-> FALSE, custom |-> NoCustom]

extract_claims(c, now, lw) ==
    IF validate_expiration(c, now, lw)
    THEN [ok |-> TRUE, custom |-> c.custom]
    ELSE [ok |-> FALSE, custom |-> NoCustom]

\* do_verify_token going on to the claims whatever validate_integrity says
do_verify_token_NoIntegrity(T, ut, jwk, now, lw) ==
    LET vk == VerifyingKey_try_from(T, jwk) IN
    IF ~vk.ok THEN Failed("KeyConversionError", "-", <<"key_convert">>)
    ELSE LET c == ClaimsFromBytes(ut.payload).claims
             x == extract_claims(c, now, lw)
         IN  IF ~x.ok
             THEN Failed("TokenExpired", T, <<"key_convert", "integrity", "expiration">>)
             ELSE Verified(x.custom, c.exp, T, <<"key_convert", "integrity", "expiration">>)

do_verify_token(T, ut, jwk, now, lw) ==
    LET vk == VerifyingKey_try_from(T, jwk) IN
    IF ~vk.ok THEN Failed("KeyConversionError", "-", <<"key_convert">>)
    ELSE LET e == validate_integrity(T, ut, vk.id) IN
         IF e # "" THEN Failed(e, T, <<"key_convert", "integrity">>)
         ELSE LET c == ClaimsFromBytes(ut.payload).claims
                  x == extract_claims(c, now, lw)
              IN  IF ~x.ok
                  THEN Failed("TokenExpired", T, <<"key_convert", "integrity", "expiration">>)
                  ELSE Verified(x.custom, c.exp, T,
                                <<"key_convert", "integrity", "expiration">>)

\* do_create_token with Duration::minutes(1)
do_create_token_ShortDuration(T, custom, jwk, now) ==
    LET sk == SigningKey_try_from(T, jwk) IN
    IF ~sk.ok THEN Failed("KeyConversionError", "-", <<"key_convert">>)
    ELSE LET c == set_duration(Claims_new(custom), now, 60)
         IN  Created(compact_token(T, c, sk.id), c.exp, T,
                     <<"key_convert", "set_duration", "sign">>)

\* do_create_token with an absolute expiration instead of now + duration
do_create_token_FixedExpiry(T, custom, jwk, now) ==
    LET sk == SigningKey_try_from(T, jwk) IN
    IF ~sk.ok THEN Failed("KeyConversionError", "-", <<"key_convert">>)
    ELSE LET c == set_duration(Claims_new(custom), 0, Hour)
         IN  Created(compact_token(T, c, sk.id), c.exp, T,
                     <<"key_convert", "set_duration", "sign">>)

\* do_create_token taking the key bytes of a JWK of any family
do_create_token_Coerce(T, custom, jwk, now) ==
    LET c == set_duration(Claims_new(custom), now, Hour)
    IN  Created(compact_token(T, c, jwk.id), c.exp, T,
                <<"key_convert", "set_duration", "sign">>)

do_create_token(T, custom, jwk, now) ==
    LET sk == SigningKey_try_from(T, jwk) IN
    IF ~sk.ok THEN Failed("KeyConversionError", "-", <<"key_convert">>)
    ELSE LET c == set_duration(Claims_new(custom), now, Hour)
         IN  Created(compact_token(T, c, sk.id), c.exp, T,
                     <<"key_convert", "set_duration", "sign">>)

\* verify_hash_token whose last match arm verifies with Hs256
verify_hash_token_Wildcard(token, secret_key, now, lw) ==
    LET ut == UntrustedToken_new(token) IN
    IF ~ut.ok THEN Failed("MalformedToken", "-", <<"parse">>)
    ELSE IF ~JsonWebKey_from(secret_key)
    THEN Failed("SerdeError", "-", <<"parse", "key_decode">>)
    ELSE After(<<"parse", "key_decode">>,
               IF ut.algorithm = "HS384" THEN do_verify_token("HS384", ut, secret_key, now, lw)
               ELSE IF ut.algorithm = "HS512" THEN do_verify_token("HS512", ut, secret_key, now, lw)
               ELSE do_verify_token("HS256", ut, secret_key, now, lw))

\* verify_hash_token deserializing the JWK before it parses the token
verify_hash_token_KeyFirst(token, secret_key, now, lw) ==
    IF ~JsonWebKey_from(secret_key) THEN Failed("SerdeError", "-", <<"key_decode">>)
    ELSE LET ut == UntrustedToken_new(token) IN
    IF ~ut.ok THEN Failed("MalformedToken", "-", <<"key_decode", "parse">>)
    ELSE After(<<"key_decode", "parse">>,
               IF ut.algorithm = "HS256" THEN do_verify_token("HS256", ut, secret_key, now, lw)
               ELSE IF ut.algorithm = "HS384" THEN do_verify_token("HS384", ut, secret_key, now, lw)
               ELSE IF ut.algorithm = "HS512" THEN do_verify_token("HS512", ut, secret_key, now, lw)
               ELSE Failed("InvalidAlgorithm", "-", <<>>))

verify_hash_token(token, secret_key, now, lw) ==
    LET ut == UntrustedToken_new(token) IN
    IF ~ut.ok THEN Failed("MalformedToken", "-", <<"parse">>)
    ELSE IF ~JsonWebKey_from(secret_key)
    THEN Failed("SerdeError", "-", <<"parse", "key_decode">>)
    ELSE After(<<"parse", "key_decode">>,
               IF ut.algorithm = "HS256" THEN do_verify_token("HS256", ut, secret_key, now, lw)
               ELSE IF ut.algorithm = "HS384" THEN do_verify_token("HS384", ut, secret_key, now, lw)
               ELSE IF ut.algorithm = "HS512" THEN do_verify_token("HS512", ut, secret_key, now, lw)
               ELSE Failed("InvalidAlgorithm", "-", <<>>))

create_hash_token(claims, secret_key, alg, now) ==
    IF ~JsonWebKey_from(secret_key) THEN Failed("SerdeError", "-", <<"key_decode">>)
    ELSE IF ~claims.valid THEN Failed("SerdeError", "-", <<"key_decode", "claims_decode">>)
    ELSE After(<<"key_decode", "claims_decode">>,
               IF alg = "HS256" THEN do_create_token("HS256", SampleClaims_from(claims), secret_key, now)
               ELSE IF alg = "HS384" THEN do_create_token("HS384", SampleClaims_from(claims), secret_key, now)
               ELSE IF alg = "HS512" THEN do_create_token("HS512", SampleClaims_from(claims), secret_key, now)
               ELSE Failed("InvalidAlgorithm", "-", <<>>))

verify_rsa_token(token, public_key_pem, now, lw) ==
    IF ~pem_parse(public_key_pem) THEN Failed("PemError", "-", <<"key_decode">>)
    ELSE LET pk == RSAPublicKey_from_pkcs8(public_key_pem) IN
    IF ~pk.ok THEN Failed("InvalidKeyMaterial", "-", <<"key_decode", "key_convert">>)
    ELSE LET ut == UntrustedToken_new(token) IN
    IF ~ut.ok THEN Failed("MalformedToken", "-", <<"key_decode", "key_convert", "parse">>)
    ELSE IF ~Rsa_with_name(ut.algorithm)
    THEN Failed("UnsupportedAlgorithm", "-", <<"key_decode", "key_convert", "parse">>)
    ELSE LET e == validate_integrity(ut.algorithm, ut, pk.id) IN
    IF e # ""
    THEN Failed(e, ut.algorithm, <<"key_decode", "key_convert", "parse", "integrity">>)
    ELSE LET c == ClaimsFromBytes(ut.payload).claims
             x == extract_claims(c, now, lw)
         IN  IF ~x.ok
             THEN Failed("TokenExpired", ut.algorithm,
                         <<"key_decode", "key_convert", "parse", "integrity", "expiration">>)
             ELSE Verified(x.custom, c.exp, ut.algorithm,
                           <<"key_decode", "key_convert", "parse", "integrity", "expiration">>)

create_rsa_token(claims, private_key_pem, alg, now) ==
    IF ~pem_parse(private_key_pem) THEN Failed("PemError", "-", <<"key_decode">>)
    ELSE LET sk == RSAPrivateKey_from_pkcs8(private_key_pem) IN
    IF ~sk.ok THEN Failed("InvalidKeyMaterial", "-", <<"key_decode", "key_convert">>)
    ELSE IF ~claims.valid
    THEN Failed("SerdeError", "-", <<"key_decode", "key_convert", "claims_decode">>)
    ELSE IF ~Rsa_with_name(alg)
    THEN Failed("UnsupportedAlgorithm", "-",
                <<"key_decode", "key_convert", "claims_decode", "set_duration">>)
    ELSE LET c == set_duration(Claims_new(SampleClaims_from(claims)), now, Hour)
         IN  Created(compact_token(alg, c, sk.id), c.exp, alg,
                     <<"key_decode", "key_convert", "claims_decode", "set_duration", "sign">>)

\* verify_ed_token choosing the algorithm by the name the token claims
verify_ed_token_ByName(token, public_key, now, lw) ==
    IF ~JsonWebKey_from(public_key) THEN Failed("SerdeError", "-", <<"key_decode">>)
    ELSE LET ut == UntrustedToken_new(token) IN
    IF ~ut.ok THEN Failed("MalformedToken", "-", <<"key_decode", "parse">>)
    ELSE After(<<"key_decode", "parse">>,
               do_verify_token(ut.algorithm, ut, public_key, now, lw))

verify_ed_token(token, public_key, now, lw) ==
    IF ~JsonWebKey_from(public_key) THEN Failed("SerdeError", "-", <<"key_decode">>)
    ELSE LET ut == UntrustedToken_new(token) IN
    IF ~ut.ok THEN Failed("MalformedToken", "-", <<"key_decode", "parse">>)
    ELSE After(<<"key_decode", "parse">>, do_verify_token("EdDSA", ut, public_key, now, lw))

create_ed_token(claims, private_key, now) ==
    IF ~JsonWebKey_from(private_key) THEN Failed("SerdeError", "-", <<"key_decode">>)
    ELSE IF ~claims.valid THEN Failed("SerdeError", "-", <<"key_decode", "claims_decode">>)
    ELSE After(<<"key_decode", "claims_decode">>,
               do_create_token("EdDSA", SampleClaims_from(claims), private_key, now))

\* ------------------------------------------------------------------ state
VARIABLES
    now,      \* the clock TimeOptions::default() reads (seconds)
    leeway,   \* the leeway of TimeOptions::default()
    tok,      \* the compact string the host holds
    origin,   \* how tok came about (history, not read by the program)
    call,     \* the entry-point call just made: its operation and arguments
    res       \* what that call returned

vars == <<now, leeway, tok, origin, call, res>>

\* the instants the clock is observed at
Instants == {0} \cup (Hour .. Hour + MaxLeeway + 1)

NoClaimsInput == [name |-> 0, sub |-> 0, admin |-> "absent", valid |-> FALSE]
NoKeyInput == [form |-> "junk", kty |-> "-", id |-> 0, priv |-> FALSE]

NoCall ==
    [key |-> NoKeyInput, alg |-> "-", claims |-> NoClaimsInput, tok |-> <<>>,
     op |-> "none"]

NoOrigin ==
    [key |-> 0, alg |-> "-", custom |-> NoCustom, exp |-> -1, nbf |-> -1,
     how |-> "none", tampered |-> "no"]

VerifyOps == {"verify_hash_token", "verify_rsa_token", "verify_ed_token"}
CreateOps == {"create_hash_token", "create_rsa_token", "create_ed_token"}

Init ==
    /\ now = 0
    /\ leeway \in 0..MaxLeeway
    /\ tok = <<>>
    /\ origin = NoOrigin
    /\ call = NoCall
    /\ res = NoResult

\* the host holds no token yet
NoToken == tok = <<>> /\ origin.how = "none"

\* time passes while the host holds a token (the clock reads 0 when the host
\* obtains it); the result of the last call has been consumed
Tick(t) ==
    /\ ~NoToken
    /\ t > now
    /\ now' = t
    /\ call' = NoCall
    /\ res' = NoResult
    /\ UNCHANGED <<leeway, tok, origin>>

\* the host, holding no token, calls a create entry point and keeps what it
\* returned (a run follows one token: the entry points share no state)
Keep(op, c, k, a, r) ==
    /\ NoToken
    /\ res' = r
    /\ call' = [key |-> k, alg |-> a, claims |-> c, tok |-> <<>>, op |-> op]
    /\ tok' = r.token
    /\ origin' = IF r.ok
                 THEN [key |-> k.id, alg |-> a, custom |-> SampleClaims_from(c),
                       exp |-> now + Hour, nbf |-> -1, how |-> "created",
                       tampered |-> "no"]
                 ELSE NoOrigin
    /\ UNCHANGED <<now, leeway>>

CreateHash(c, k, a) == Keep("create_hash_token", c, k, a, create_hash_token(c, k, a, now))

CreateRsa(c, k, a) == Keep("create_rsa_token", c, k, a, create_rsa_token(c, k, a, now))

CreateEd(c, k) == Keep("create_ed_token", c, k, "EdDSA", create_ed_token(c, k, now))

\* the host is handed a token another holder of key 1 issued with the engine
Issue(a, exp, nbf) ==
    /\ NoToken
    /\ Family(a) # "none"
    /\ nbf <= exp
    /\ tok' = compact_token(a, [custom |-> [name |-> 1, sub |-> 1, admin |-> FALSE],
                                exp |-> exp, nbf |-> nbf], 1)
    /\ origin' = [key |-> 1, alg |-> a,
                  custom |-> [name |-> 1, sub |-> 1, admin |-> FALSE],
                  exp |-> exp, nbf |-> nbf, how |-> "issued", tampered |-> "no"]
    /\ call' = NoCall
    /\ res' = NoResult
    /\ UNCHANGED <<now, leeway>>

\* strings that are no compact token: one segment, two segments, a header
\* without an algorithm name, an empty signature segment
MalformedTokens == {<<2>>, <<2, SEP, 2>>, <<1, SEP, 2, SEP, 2>>, <<2, SEP, 2, SEP>>}

Receive(s) ==
    /\ NoToken
    /\ tok' = s
    /\ origin' = NoOrigin
    /\ call' = NoCall
    /\ res' = NoResult
    /\ UNCHANGED <<now, leeway>>

\* index of the first character of the signature segment of a created token
SigStart(s) == Len(Split(s)[1]) + Len(Split(s)[2]) + 3

\* one character of the signature segment of a created token is changed
TamperSig(i, c) ==
    /\ origin.how = "created"
    /\ origin.tampered = "no"
    /\ i \in SigStart(tok)..Len(tok)
    /\ c \in {SEP, BadChar, tok[i] + 1}
    /\ tok' = [tok EXCEPT ![i] = c]
    /\ origin' = [origin EXCEPT !.tampered = "signature"]
    /\ call' = NoCall
    /\ res' = NoResult
    /\ UNCHANGED <<now, leeway>>

\* the header of a created token is replaced by one claiming algorithm a
ReplaceHeader(a) ==
    /\ origin.how = "created"
    /\ origin.tampered = "no"
    /\ a # origin.alg
    /\ tok' = base64_encode(HeaderBytes(a)) \o SubSeq(tok, 2, Len(tok))
    /\ origin' = [origin EXCEPT !.tampered = "header"]
    /\ call' = NoCall
    /\ res' = NoResult
    /\ UNCHANGED <<now, leeway>>

Called(op, k, r) ==
    /\ res' = r
    /\ call' = [key |-> k, alg |-> "-", claims |-> NoClaimsInput, tok |-> tok,
                op |-> op]
    /\ UNCHANGED <<now, leeway, tok, origin>>

VerifyHash(k) == Called("verify_hash_token", k, verify_hash_token(tok, k, now, leeway))

VerifyRsa(k) == Called("verify_rsa_token", k, verify_rsa_token(tok, k, now, leeway))

VerifyEd(k) == Called("verify_ed_token", k, verify_ed_token(tok, k, now, leeway))

Next ==
    \/ \E t \in Instants : Tick(t)
    \/ \E c \in ClaimInputs, k \in KeyInputs, a \in AlgNames : CreateHash(c, k, a)
    \/ \E c \in ClaimInputs, k \in KeyInputs, a \in AlgNames : CreateRsa(c, k, a)
    \/ \E c \in ClaimInputs, k \in KeyInputs : CreateEd(c, k)
    \/ \E a \in AlgNames, exp \in Instants, nbf \in {-1} \cup Instants : Issue(a, exp, nbf)
    \/ \E s \in MalformedTokens : Receive(s)
    \/ \E i \in 1..Len(tok), c \in {SEP, BadChar} \cup {tok[j] + 1 : j \in 1..Len(tok)} :
          TamperSig(i, c)
    \/ \E a \in AlgNames : ReplaceHeader(a)
    \/ \E k \in KeyInputs : VerifyHash(k)
    \/ \E k \in KeyInputs : VerifyRsa(k)
    \/ \E k \in KeyInputs : VerifyEd(k)

Spec == Init /\ [][Next]_vars

\* ------------------------------------------------------- reading a state
IsVerify == call.op \in VerifyOps

IsCreate == call.op \in CreateOps

\* the call's token as the parser sees it
Parsed == UntrustedToken_new(call.tok)

Ran(stage) == \E i \in 1..Len(res.log) : res.log[i] = stage

Pos(stage) == CHOOSE i \in 1..Len(res.log) : res.log[i] = stage

\* the algorithm the entry point of the call is to verify with
ExpectedAlg == IF call.op = "verify_ed_token" THEN "EdDSA" ELSE Parsed.algorithm

\* the key material of the call yields a verifying key for that algorithm
KeyResolves ==
    IF call.op = "verify_rsa_token"
    THEN pem_parse(call.key) /\ RSAPublicKey_from_pkcs8(call.key).ok
    ELSE JsonWebKey_from(call.key) /\ VerifyingKey_try_from(ExpectedAlg, call.key).ok

AlgorithmAccepted ==
    \/ call.op = "verify_hash_token" /\ Parsed.algorithm \in HmacNames
    \/ call.op = "verify_rsa_token" /\ Parsed.algorithm \in RsaNames
    \/ call.op = "verify_ed_token" /\ Parsed.algorithm = "EdDSA"

SignatureValid ==
    verify_signature(ExpectedAlg, call.key.id, Parsed.signed_data, Parsed.signature)

Unexpired == now <= ClaimsFromBytes(Parsed.payload).claims.exp + leeway

VerifyOpFor(alg) ==
    IF Family(alg) = "oct" THEN "verify_hash_token"
    ELSE IF Family(alg) = "RSA" THEN "verify_rsa_token"
    ELSE "verify_ed_token"

\* the key material that verifies what the signing key of origin signed
CorrectKey ==
    /\ call.key.id = origin.key
    /\ call.key.kty = Family(origin.alg)
    /\ call.key.form = (IF Family(origin.alg) = "RSA" THEN "pem" ELSE "jwk")
    /\ (Family(origin.alg) = "RSA" => ~call.key.priv)

\* a verification, by the matching entry point and with the correct key, of
\* a token as it was created or issued
VerifiesGenuine ==
    /\ IsVerify
    /\ origin.how \in {"created", "issued"}
    /\ origin.tampered = "no"
    /\ call.op = VerifyOpFor(origin.alg)
    /\ CorrectKey

\* --------------------------------------------------------------- claims

C2_Original ==
    (call.op = "verify_hash_token" /\ Parsed.ok) =>
        /\ Ran("integrity") => res.alg \in HmacNames /\ res.alg = Parsed.algorithm
        /\ Parsed.algorithm \notin HmacNames =>
              /\ res.err = "InvalidAlgorithm"
              /\ ~Ran("key_convert") /\ ~Ran("integrity")

\* C2 amended: as C2, but the error is 'Invalid algorithm' only when the key
\* material deserializes as a JWK; when it does not, the call returns the
\* deserialization error, still without key conversion or verification.
C2_AllowList ==
    (call.op = "verify_hash_token" /\ Parsed.ok) =>
        /\ Ran("integrity") => res.alg \in HmacNames /\ res.alg = Parsed.algorithm
        /\ Parsed.algorithm \notin HmacNames =>
              /\ ~res.ok
              /\ res.err = (IF JsonWebKey_from(call.key)
                            THEN "InvalidAlgorithm" ELSE "SerdeError")
              /\ ~Ran("key_convert") /\ ~Ran("integrity")

C2_Witness ==
    /\ call.op = "verify_hash_token"
    /\ res.err = "InvalidAlgorithm"
    /\ Parsed.algorithm = "RS256"
    /\ origin.how = "issued"

\* C3: a token made by create_hash_token, create_rsa_token or
\* create_ed_token, verified by the matching entry point with the matching
\* key within the hour, gives back the custom claims passed to create, and
\* the token's expiration is the one set at creation.
C3_RoundTrip ==
    (VerifiesGenuine /\ origin.how = "created" /\ now <= origin.exp) =>
        /\ res.ok
        /\ res.claims = origin.custom
        /\ res.exp = origin.exp

C3_Witness ==
    /\ VerifiesGenuine
    /\ origin.how = "created"
    /\ call.op = "verify_hash_token"
    /\ now = origin.exp
    /\ res.ok
    /\ res.claims = [name |-> 2, sub |-> 2, admin |-> FALSE]

\* C4 as stated: after any single-byte change of the signature segment of a
\* created token, verification with the correct key fails with
\* SignatureMismatch.
C4_Original ==
    (IsVerify /\ origin.tampered = "signature" /\ call.op = VerifyOpFor(origin.alg)
     /\ CorrectKey) =>
        ~res.ok /\ res.err = "SignatureMismatch"

\* C4 amended: after any single-byte change of the signature segment of a
\* created token no verification returns claims; with the correct key the
\* error is SignatureMismatch when the changed string still parses as a
\* compact token and MalformedToken when it does not (the byte became a
\* separator or a character outside the encoding alphabet).
C4_TamperDetected ==
    (IsVerify /\ origin.tampered = "signature") =>
        /\ ~res.ok
        /\ res.claims = NoCustom
        /\ (call.op = VerifyOpFor(origin.alg) /\ CorrectKey) =>
              res.err = (IF Parsed.ok THEN "SignatureMismatch" ELSE "MalformedToken")

C4_Witness ==
    /\ IsVerify
    /\ origin.tampered = "signature"
    /\ call.op = VerifyOpFor(origin.alg)
    /\ CorrectKey
    /\ res.err = "SignatureMismatch"

\* C5 as stated: a genuine token with expiration = now verifies, one with
\* expiration = now - 1 fails with TokenExpired, and with leeway L it is
\* accepted exactly while now <= expiration + L.
C5_Original ==
    VerifiesGenuine =>
        /\ origin.exp = now => res.ok
        /\ origin.exp = now - 1 => res.err = "TokenExpired"
        /\ res.ok <=> now <= origin.exp + leeway

\* C5 amended: a genuine token is accepted exactly while
\* now <= expiration + L, L the leeway of the default time policy, and fails
\* with TokenExpired after; so expiration = now verifies, and
\* expiration = now - 1 fails only when that leeway is zero.
C5_ExpirationBoundary ==
    VerifiesGenuine =>
        /\ origin.exp = now => res.ok
        /\ (origin.exp = now - 1 /\ leeway = 0) => res.err = "TokenExpired"
        /\ res.ok <=> now <= origin.exp + leeway
        /\ ~res.ok => res.err = "TokenExpired"

C5_Witness ==
    /\ VerifiesGenuine
    /\ leeway > 0
    /\ now = origin.exp + leeway
    /\ res.ok

\* C6: a verify entry point returns claims only for a token signed, with the
\* signing key matching the verifying key, by the algorithm it verifies
\* with; a token signed with one algorithm fails under every other, also
\* under the same symmetric JWK, and verify_ed_token accepts Ed25519 only.
C6_AlgorithmIsolation ==
    /\ (IsVerify /\ res.ok) =>
          /\ origin.how \in {"created", "issued"}
          /\ origin.tampered = "no"
          /\ res.alg = origin.alg
          /\ call.op = VerifyOpFor(origin.alg)
          /\ CorrectKey
    /\ (call.op = "verify_ed_token" /\ origin.alg # "EdDSA") => ~res.ok

C6_Witness ==
    /\ call.op = "verify_hash_token"
    /\ origin.tampered = "header"
    /\ origin.alg = "HS256"
    /\ res.alg = "HS384"
    /\ call.key.kty = "oct"
    /\ call.key.id = origin.key
    /\ res.err = "SignatureMismatch"

\* the algorithm a JWK is converted for in the call
TargetAlg ==
    IF call.op = "create_hash_token" THEN call.alg
    ELSE IF call.op = "create_ed_token" THEN "EdDSA"
    ELSE ExpectedAlg

JwkOps == {"create_hash_token", "create_ed_token", "verify_hash_token", "verify_ed_token"}

\* C7: converting a JWK whose family is not the target algorithm's fails with
\* a key conversion error; create then returns the error and no token,
\* verify returns the error and verifies no signature; a call succeeds only
\* with a JWK of the algorithm's own family.
C7_KeyMismatch ==
    call.op \in JwkOps =>
        /\ (Ran("key_convert") /\ call.key.kty # Family(TargetAlg)) =>
              /\ ~res.ok
              /\ res.err = "KeyConversionError"
              /\ res.token = <<>>
              /\ res.claims = NoCustom
              /\ ~Ran("integrity") /\ ~Ran("sign")
        /\ res.ok => call.key.kty = Family(res.alg)

C7_Witness ==
    /\ call.op = "create_hash_token"
    /\ call.key.kty = "RSA"
    /\ call.alg = "HS256"
    /\ res.err = "KeyConversionError"
    /\ tok = <<>>

\* C8: a genuine token whose not-before is later than the current time,
\* leeway included, fails verification with TokenNotYetValid.
C8_NotBeforeEnforced ==
    (VerifiesGenuine /\ origin.nbf >= 0 /\ now + leeway < origin.nbf) =>
        ~res.ok /\ res.err = "TokenNotYetValid"

Before(a, b) == Ran(a) /\ Pos(a) < Pos(b)

\* C9 as stated: every verify entry point parses the token before it decodes
\* or converts key material, so a malformed token is reported as a parse
\* failure whatever the key material; conversion precedes signature
\* verification, which precedes claims validation.
C9_Original ==
    IsVerify =>
        /\ ~Parsed.ok => res.err = "MalformedToken"
        /\ Ran("key_decode") => Before("parse", "key_decode")
        /\ Ran("key_convert") => Before("parse", "key_convert")
        /\ Ran("integrity") => Before("key_convert", "integrity")
        /\ Ran("expiration") => Before("integrity", "expiration")

\* C9 amended: in every verify entry point parsing and key conversion precede
\* signature verification, which precedes claims validation.
\* verify_hash_token parses the token first, so there a malformed token is a
\* parse failure whatever the key; verify_ed_token deserializes the JWK
\* before it parses (and converts it after); verify_rsa_token decodes and
\* converts the PEM key before it parses; in these two a malformed token is
\* reported as a parse failure only when the key material is accepted.
C9_StageOrder ==
    IsVerify =>
        /\ Ran("integrity") => Before("key_convert", "integrity") /\ Before("parse", "integrity")
        /\ Ran("expiration") => Before("integrity", "expiration")
        /\ call.op = "verify_hash_token" =>
              /\ ~Parsed.ok => res.err = "MalformedToken"
              /\ Ran("key_decode") => Before("parse", "key_decode")
              /\ Ran("key_convert") => Before("key_decode", "key_convert")
        /\ call.op = "verify_ed_token" =>
              /\ Ran("parse") => Before("key_decode", "parse")
              /\ Ran("key_convert") => Before("parse", "key_convert")
              /\ ~JsonWebKey_from(call.key) => res.err = "SerdeError"
              /\ (~Parsed.ok /\ JsonWebKey_from(call.key)) => res.err = "MalformedToken"
        /\ call.op = "verify_rsa_token" =>
              /\ Ran("parse") => Before("key_decode", "key_convert") /\ Before("key_convert", "parse")
              /\ ~KeyResolves => res.err \in {"PemError", "InvalidKeyMaterial"}
              /\ (~Parsed.ok /\ KeyResolves) => res.err = "MalformedToken"

C9_Witness ==
    /\ call.op = "verify_hash_token"
    /\ ~Parsed.ok
    /\ call.tok # <<>>
    /\ call.key.form = "junk"
    /\ res.err = "MalformedToken"

\* the entry point op called at clock reading t
VerifyBy(op, token, key, t, lw) ==
    IF op = "verify_hash_token" THEN verify_hash_token(token, key, t, lw)
    ELSE IF op = "verify_rsa_token" THEN verify_rsa_token(token, key, t, lw)
    ELSE verify_ed_token(token, key, t, lw)

CreateBy(op, claims, key, alg, t) ==
    IF op = "create_hash_token" THEN create_hash_token(claims, key, alg, t)
    ELSE IF op = "create_rsa_token" THEN create_rsa_token(claims, key, alg, t)
    ELSE create_ed_token(claims, key, t)

\* C10 as stated: the outcome of a call is a function of its arguments: the
\* same entry point with the same token and key gives the same outcome at
\* every time, and create with the same claims, key and algorithm the same
\* expiration.
C10_Original ==
    /\ IsVerify => \A t \in Instants :
          VerifyBy(call.op, call.tok, call.key, t, leeway) = res
    /\ IsCreate => \A t \in Instants :
          CreateBy(call.op, call.claims, call.key, call.alg, t).exp = res.exp

\* C10 amended: the outcome of a call is a function of its arguments and of
\* the clock reading of TimeOptions::default() at the call.  Create sets the
\* expiration to that reading plus one hour and depends on it in nothing
\* else; two verifications of the same token with the same key differ only
\* in that the later one may fail with TokenExpired.
C10_ClockOnly ==
    /\ IsVerify => \A t \in Instants :
          LET r == VerifyBy(call.op, call.tok, call.key, t, leeway)
          IN  \/ r = res
              \/ t > now /\ res.ok /\ r.err = "TokenExpired"
              \/ t < now /\ r.ok /\ res.err = "TokenExpired"
    /\ IsCreate => \A t \in Instants :
          LET r == CreateBy(call.op, call.claims, call.key, call.alg, t)
          IN  /\ r.ok = res.ok /\ r.err = res.err /\ r.log = res.log
              /\ r.ok => r.exp = t + Hour
              /\ t = now => r = res

C10_Witness ==
    /\ IsVerify
    /\ res.ok
    /\ origin.how = "created"
    /\ \E t \in Instants :
          VerifyBy(call.op, call.tok, call.key, t, leeway).err = "TokenExpired"
====
